---- MODULE Spec2Model ----
(***************************************************************************)
(* Query-execution gateway of the postgres MCP server.                     *)
(*                                                                         *)
(*   server.py                   run_query (the Query Gateway and the      *)
(*                               Safety Gate's composition)                *)
(*   psycopg_pool_connection.py  PsycopgPoolConnection (the Connection     *)
(*                               Resource Manager and execute_query)       *)
(*                                                                         *)
(* The program is asyncio code: a task runs without interruption from one  *)
(* await of a library coroutine to the next, so every action below is the  *)
(* code a task runs between two such awaits.  Awaiting a coroutine of the  *)
(* program itself (initialize_pool, _get_connection, execute_query) does   *)
(* not suspend by itself.  The awaits of library coroutines are            *)
(*   pool.open(), pool.connection().__aenter__ (getconn), conn.execute,    *)
(*   conn.transaction() enter/exit, cursor.execute, cursor.fetchall,       *)
(*   pool.close() and ctx.error().                                         *)
(* A pool object is "new" from its construction (open=False) until its     *)
(* open() has completed, then "open", and "closed" from the call of        *)
(* close().  psycopg_pool raises PoolClosed from getconn on a pool that    *)
(* is not open (either not open yet, or already closed).                   *)
(***************************************************************************)
EXTENDS Integers, Sequences, FiniteSets, TLC

\* ------------------------------------------------------------------ bounds
\* Task p is the p-th run_query tool invocation to start running; each runs
\* once.  close() is called by one further caller, any number of times.
NumTasks == 2
max_size == 1

Tasks == 1..NumTasks
\* A request constructs at most two pools (one at each call site of
\* initialize_pool).
PoolIds == 1..(NumTasks + NumTasks)

\* ------------------------------------------------------- request statements
\* SQL text as a sequence of tokens (the tokenisation is the word-boundary
\* split the detectors' patterns work on).
InjectionScenario ==
  <<"SELECT", "*", "FROM", "users", ";", "DROP", "TABLE", "users", ";">>

Statements ==
  << <<"SELECT", "1">>,
     InjectionScenario,
     <<"insert", "INTO", "t", "VALUES", "1">>,
     <<"SELECT", "updated_at", "--", "x">> >>

SqlIds == 1..Len(Statements)

\* ------------------------------------------------------------ error keys
client_error_code_key == "run_query ClientError code"
unexpected_error_key == "run_query unexpected error"
write_query_prohibited_key ==
  "Your MCP tool only allows readonly query. If you want to write, change the MCP configuration per README.md"
query_comment_prohibited_key == "The comment in query is prohibited because of injection risk"
query_injection_risk_key == "Your query contains risky injection patterns"
no_connection_error == "No database connection available"

\* ---------------------------------------------------------- Safety Gate
MutationKeywords ==
  {"INSERT", "UPDATE", "DELETE", "DROP", "ALTER", "CREATE", "TRUNCATE", "GRANT", "REVOKE"}

\* Case folding of a token (the keyword scan is case-insensitive).
Upper(tok) ==
  CASE tok = "insert" -> "INSERT"
    [] tok = "drop" -> "DROP"
    [] tok = "update" -> "UPDATE"
    [] OTHER -> tok

\* The matched mutation keywords: whole tokens only, so the identifier
\* updated_at does not match UPDATE.
detect_mutating_keywords(s) ==
  {Upper(s[i]) : i \in DOMAIN s} \cap MutationKeywords

\* The issues found: a comment sequence, or a statement separator followed by
\* further text (stacked statements).
check_sql_injection_risk(s) ==
  (IF \E i \in DOMAIN s : s[i] \in {"--", "/*"} THEN {"comment"} ELSE {})
    \cup
  (IF \E i \in DOMAIN s : s[i] = ";" /\ i < Len(s) THEN {"stacked"} ELSE {})

\* Mutants of SafetyGate.
SafetyGate_NeverRejects(ro, s) ==
  [mutChecked |-> ro, injChecked |-> TRUE, verdict |-> "allowed"]

SafetyGate_SkipsMutation(ro, s) ==
  [mutChecked |-> FALSE, injChecked |-> TRUE,
   verdict |-> IF check_sql_injection_risk(s) # {}
               THEN query_injection_risk_key ELSE "allowed"]

SafetyGate_InjectionFirst(ro, s) ==
  IF check_sql_injection_risk(s) # {}
  THEN [mutChecked |-> FALSE, injChecked |-> TRUE, verdict |-> query_injection_risk_key]
  ELSE [mutChecked |-> ro, injChecked |-> TRUE,
        verdict |-> IF ro /\ detect_mutating_keywords(s) # {}
                    THEN write_query_prohibited_key ELSE "allowed"]

SafetyGate_MutationAlways(ro, s) ==
  IF detect_mutating_keywords(s) # {}
  THEN [mutChecked |-> TRUE, injChecked |-> FALSE, verdict |-> write_query_prohibited_key]
  ELSE [mutChecked |-> TRUE, injChecked |-> TRUE,
        verdict |-> IF check_sql_injection_risk(s) # {}
                    THEN query_injection_risk_key ELSE "allowed"]

SafetyGate_RunsBoth(ro, s) ==
  [mutChecked |-> TRUE, injChecked |-> TRUE,
   verdict |-> IF ro /\ detect_mutating_keywords(s) # {}
               THEN write_query_prohibited_key
               ELSE IF check_sql_injection_risk(s) # {}
                    THEN query_injection_risk_key ELSE "allowed"]

\* run_query, lines 144-161: which checks are evaluated and what is decided.
\* The mutation check is inside `if db_connection.readonly_query`, and its
\* rejection returns before check_sql_injection_risk is called.
SafetyGate(ro, s) ==
  IF ro /\ detect_mutating_keywords(s) # {}
  THEN [mutChecked |-> TRUE, injChecked |-> FALSE, verdict |-> write_query_prohibited_key]
  ELSE [mutChecked |-> ro, injChecked |-> TRUE,
        verdict |-> IF check_sql_injection_risk(s) # {}
                    THEN query_injection_risk_key ELSE "allowed"]

\* ------------------------------------------------------ exception handling
\* The exceptions the connection code can raise; all derive from Exception.
Exceptions ==
  {"ValueError", "PoolNotOpen", "PoolClosed", "PoolTimeout", "OpenError", "DriverError"}

\* Mutant of ExceptionHandler: only ClientError is caught.
ExceptionHandler_ClientErrorOnly(e) ==
  IF e = "ClientError" THEN client_error_code_key ELSE "uncaught"

\* run_query, lines 171-181: the error key returned for an exception raised
\* by execute_query ("uncaught" would mean that it propagates).
ExceptionHandler(e) ==
  IF e = "ClientError" THEN client_error_code_key ELSE unexpected_error_key

\* Mutant of ClosedState: close() forgets to reset the initialization flag.
ClosedState_KeepsFlag == [pool |-> 0, initialized |-> TRUE]

\* close(), lines 266-267: what close() leaves in the manager.
ClosedState == [pool |-> 0, initialized |-> FALSE]

\* ------------------------------------------------------------------- state
VARIABLES
  readonly_query,          \* AbstractDBConnection.readonly_query
  pool,                    \* self.pool: 0 is None, else the id of a pool object
  _pool_initialized,       \* self._pool_initialized
  pools,                   \* the pool objects: "none" (not constructed), "new", "open", "closed"
  checkedOut,              \* connections checked out of each pool object
  constructed,             \* number of AsyncConnectionPool objects constructed
  pc,                      \* where each task is: "idle" (not called yet), suspended, or "done"
  sql,                     \* the statement of the task's request (index in Statements)
  result,                  \* what the task's last operation returned
  pending,                 \* the error key run_query returns after await ctx.error
  exc,                     \* the exception execute_query raised in this request
  ret,                     \* call site initialize_pool returns to: "eq" (line 93), "gc" (line 79)
  ref,                     \* the pool object the suspended library call works on
  mutChecked,              \* detect_mutating_keywords was evaluated for this request
  injChecked,              \* check_sql_injection_risk was evaluated for this request
  closing,                 \* the pool object whose close() is awaited
  closer,                  \* the caller of close(): "idle", or "cl_close" (pool.close() awaited)
  call,                    \* a call of the Value Codec or the Parameter Translator: [op, arg, out]
  api,                     \* the entry point each task calls: run_query, or a method of the manager
  main                     \* where main() is: "construct", "validate", "exit_1" or in mcp.run()

mgrVars == <<pool, _pool_initialized, pools, checkedOut, constructed>>
taskVars == <<pc, sql, result, pending, exc, ret, ref, mutChecked, injChecked>>
closeVars == <<closer, closing>>
sysVars == <<readonly_query, mgrVars, taskVars, closeVars, api, main>>
vars == <<sysVars, call>>
\* What no step of a request and no close() changes.
config == <<readonly_query, call, api, main>>

\* No codec or translator call is under study.
NoCall == [op |-> "none", arg |-> 0, out |-> 0]

\* Locations inside execute_query.
InitPcs == {"ip_open", "ro_acq", "ro_exec"}
ConnPcs == {"acq", "tx_begin", "directive", "stmt", "fetch", "tx_commit", "tx_rollback"}
ExecPcs == InitPcs \cup ConnPcs

\* Mutant of Fresh: the constructor builds and opens the pool.
Fresh_OpensPool ==
  /\ readonly_query \in BOOLEAN
  /\ pool = 1
  /\ _pool_initialized = TRUE
  /\ pools = [i \in PoolIds |-> IF i = 1 THEN "open" ELSE "none"]
  /\ checkedOut = [i \in PoolIds |-> 0]
  /\ constructed = 1
  /\ pc = [p \in Tasks |-> "idle"]
  /\ sql = [p \in Tasks |-> 0]
  /\ result = [p \in Tasks |-> "none"]
  /\ pending = [p \in Tasks |-> "none"]
  /\ exc = [p \in Tasks |-> "none"]
  /\ ret = [p \in Tasks |-> "none"]
  /\ ref = [p \in Tasks |-> 0]
  /\ mutChecked = [p \in Tasks |-> FALSE]
  /\ injChecked = [p \in Tasks |-> FALSE]
  /\ closer = "idle"
  /\ closing = 0

\* PsycopgPoolConnection.__init__ (lines 31-38): no pool, flag false.
Fresh ==
  /\ readonly_query \in BOOLEAN
  /\ pool = 0
  /\ _pool_initialized = FALSE
  /\ pools = [i \in PoolIds |-> "none"]
  /\ checkedOut = [i \in PoolIds |-> 0]
  /\ constructed = 0
  /\ pc = [p \in Tasks |-> "idle"]
  /\ sql = [p \in Tasks |-> 0]
  /\ result = [p \in Tasks |-> "none"]
  /\ pending = [p \in Tasks |-> "none"]
  /\ exc = [p \in Tasks |-> "none"]
  /\ ret = [p \in Tasks |-> "none"]
  /\ ref = [p \in Tasks |-> 0]
  /\ mutChecked = [p \in Tasks |-> FALSE]
  /\ injChecked = [p \in Tasks |-> FALSE]
  /\ closer = "idle"
  /\ closing = 0

\* Every task is a run_query tool invocation.
ToolCalls == [p \in Tasks |-> "run_query"]

\* main() has started the transport and tool calls are being served:
\* mcp.run(transport="streamable-http") at line 846 when MCP_HOST and MCP_PORT
\* are set, mcp.run() (stdio) at line 849 otherwise.
Transports == {"mcp_run", "mcp_run_http"}
Serving == main \in Transports

Init == Fresh /\ call = NoCall /\ api = ToolCalls /\ main = "mcp_run"

\* ------------------------------------------------------- task-local steps
Set(f, p, v) == [f EXCEPT ![p] = v]

\* The task suspends in a library call on pool object id; site is the call
\* site a pending initialize_pool returns to.
Yield(p, loc, site, id) ==
  /\ pc' = Set(pc, p, loc)
  /\ ret' = Set(ret, p, site)
  /\ ref' = Set(ref, p, id)
  /\ UNCHANGED <<exc, pending, result>>

\* Mutant of HealthHandler: check_connection_health lets the exception out.
HealthHandler_Propagates(e) == "raised"

\* check_connection_health, lines 275-277: any Exception is logged and the
\* method returns False.
HealthHandler(e) == "False"

\* execute_query raises e (lines 149-151 re-raise it); run_query's handlers
\* (lines 171-181) pick the error key and await ctx.error before returning.
\* check_connection_health returns what its handler says; nothing catches an
\* exception of a direct call of initialize_pool.
Raise(p, e) ==
  /\ exc' = Set(exc, p, e)
  /\ ret' = Set(ret, p, "none")
  /\ ref' = Set(ref, p, 0)
  /\ CASE api[p] = "check_connection_health" ->
            /\ pc' = Set(pc, p, "done")
            /\ result' = Set(result, p, HealthHandler(e))
            /\ UNCHANGED pending
       [] api[p] = "initialize_pool" \/ ExceptionHandler(e) = "uncaught" ->
            /\ pc' = Set(pc, p, "done")
            /\ result' = Set(result, p, "raised")
            /\ UNCHANGED pending
       [] OTHER ->
            /\ pc' = Set(pc, p, "ctx_err")
            /\ pending' = Set(pending, p, ExceptionHandler(e))
            /\ UNCHANGED result

\* run_query rejects before execute_query: await ctx.error, then return.
Reject(p, key) ==
  /\ pc' = Set(pc, p, "ctx_err")
  /\ pending' = Set(pending, p, key)
  /\ UNCHANGED <<exc, ret, ref, result>>

\* ---------------------------------------------- Connection Resource Manager
\* The fragments below take the manager's values as they are at that point of
\* the running step: f is self._pool_initialized, pl is self.pool, st the
\* pool objects.  Each sets pool', constructed', pools' and the task's next
\* suspension.

\* initialize_pool, lines 58-66: construct the pool with open=False, call
\* open() on it and suspend there.
ConstructPool(p, site, st) ==
  /\ pool' = constructed + 1
  /\ constructed' = constructed + 1
  /\ pools' = [st EXCEPT ![constructed + 1] = "new"]
  /\ Yield(p, "ip_open", site, constructed + 1)

\* _get_connection line 84 and `async with` at line 95:
\* self.pool.connection(timeout=15.0) entered; getconn refuses a pool that is
\* not open.
Connect(p, pl, st) ==
  /\ pool' = pl
  /\ UNCHANGED constructed
  /\ pools' = st
  /\ CASE st[pl] = "open" -> Yield(p, "acq", "none", pl)
       [] st[pl] = "new" -> Raise(p, "PoolNotOpen")
       [] OTHER -> Raise(p, "PoolClosed")

\* _get_connection, lines 81-84, after its initialize_pool call has returned.
UsePool(p, pl, st) ==
  IF pl = 0
  THEN /\ pool' = pl
       /\ UNCHANGED constructed
       /\ pools' = st
       /\ Raise(p, "ValueError")
  ELSE Connect(p, pl, st)

\* _get_connection, lines 78-84.  initialize_pool (line 52) constructs only
\* when self.pool is None and the flag is false; otherwise it returns at once.
GetConnection(p, f, pl, st) ==
  IF ~f /\ pl = 0
  THEN ConstructPool(p, "gc", st)
  ELSE UsePool(p, pl, st)

\* initialize_pool returns None to a caller outside the class.
ReturnNone(p, pl, st) ==
  /\ pool' = pl
  /\ UNCHANGED constructed
  /\ pools' = st
  /\ pc' = Set(pc, p, "done")
  /\ result' = Set(result, p, "None")
  /\ ret' = Set(ret, p, "none")
  /\ ref' = Set(ref, p, 0)
  /\ UNCHANGED <<exc, pending>>

\* initialize_pool returns to its caller: line 93 of execute_query (then
\* _get_connection is called at line 95), line 79 of _get_connection, or the
\* caller of the method.
ReturnFromInit(p, f, pl, st) ==
  CASE ret[p] = "eq" -> GetConnection(p, f, pl, st)
    [] ret[p] = "api" -> ReturnNone(p, pl, st)
    [] OTHER -> UsePool(p, pl, st)

\* _set_all_connections_readonly, lines 155-160: returns when there is no
\* pool; a getconn refusal is caught at line 165.
SetReadonly(p, f, pl, st) ==
  IF pl # 0 /\ st[pl] = "open"
  THEN /\ pool' = pl
       /\ UNCHANGED constructed
       /\ pools' = st
       /\ Yield(p, "ro_acq", ret[p], pl)
  ELSE ReturnFromInit(p, f, pl, st)

\* execute_query, lines 90-95, up to the first suspension.
ExecuteQuery(p) ==
  /\ IF ~_pool_initialized /\ pool = 0
     THEN ConstructPool(p, "eq", pools)
     ELSE GetConnection(p, _pool_initialized, pool, pools)
  /\ UNCHANGED <<_pool_initialized, checkedOut>>

\* ------------------------------------------------------------- run_query
\* Requests are numbered in the order they start running.
Callable(p) ==
  /\ pc[p] = "idle"
  /\ IF p = 1 THEN TRUE ELSE pc[p - 1] # "idle"

\* run_query, lines 127-139: the call passes no db_connection and none is
\* stored (DBConnectionSingleton.get() raises, _global_db_connection is None).
RunQueryNoConnection(p) ==
  /\ Callable(p)
  /\ Reject(p, no_connection_error)
  /\ UNCHANGED <<config, mgrVars, closeVars,
                 sql, mutChecked, injChecked>>

\* run_query, lines 144-161: the Safety Gate rejects.
RunQueryRejected(p) ==
  /\ Callable(p)
  /\ \E s \in SqlIds :
       LET g == SafetyGate(readonly_query, Statements[s]) IN
         /\ sql' = Set(sql, p, s)
         /\ g.verdict # "allowed"
         /\ mutChecked' = Set(mutChecked, p, g.mutChecked)
         /\ injChecked' = Set(injChecked, p, g.injChecked)
         /\ Reject(p, g.verdict)
  /\ UNCHANGED <<config, mgrVars, closeVars>>

\* run_query, lines 144-167: the Safety Gate allows and execute_query runs to
\* its first suspension.
RunQueryExecute(p) ==
  /\ Callable(p)
  /\ \E s \in SqlIds :
       LET g == SafetyGate(readonly_query, Statements[s]) IN
         /\ sql' = Set(sql, p, s)
         /\ g.verdict = "allowed"
         /\ mutChecked' = Set(mutChecked, p, g.mutChecked)
         /\ injChecked' = Set(injChecked, p, g.injChecked)
  /\ ExecuteQuery(p)
  /\ UNCHANGED <<config, closeVars>>

\* run_query, lines 150-151, 158-161, 173-181: ctx.error has returned and
\* run_query returns the one-row error result.
CtxErrorDone(p) ==
  /\ pc[p] = "ctx_err"
  /\ pc' = Set(pc, p, "done")
  /\ result' = Set(result, p, pending[p])
  /\ pending' = Set(pending, p, "none")
  /\ UNCHANGED <<config, mgrVars, closeVars,
                 sql, exc, ret, ref, mutChecked, injChecked>>

\* -------------------------------------------------------- initialize_pool
frame == <<config, closeVars, sql, mutChecked, injChecked>>

\* initialize_pool, lines 66-73: open() has completed; the flag is set and,
\* for a read-only connection, _set_all_connections_readonly is called.
OpenDone(p) ==
  /\ pc[p] = "ip_open"
  /\ LET st == IF pools[ref[p]] = "new" THEN [pools EXCEPT ![ref[p]] = "open"] ELSE pools IN
       IF readonly_query
       THEN SetReadonly(p, TRUE, pool, st)
       ELSE ReturnFromInit(p, TRUE, pool, st)
  /\ _pool_initialized' = TRUE
  /\ UNCHANGED <<checkedOut, frame>>

\* initialize_pool, line 66: open() raises.  Nothing resets self.pool.
OpenFail(p) ==
  /\ pc[p] = "ip_open"
  /\ Raise(p, "OpenError")
  /\ UNCHANGED <<mgrVars, frame>>

\* _set_all_connections_readonly, lines 160-163: a connection is checked out
\* and the ALTER ROLE statement is sent.
RoAcquired(p) ==
  /\ pc[p] = "ro_acq"
  /\ pools[ref[p]] = "open"
  /\ checkedOut[ref[p]] < max_size
  /\ checkedOut' = [checkedOut EXCEPT ![ref[p]] = @ + 1]
  /\ pc' = Set(pc, p, "ro_exec")
  /\ UNCHANGED <<pool, _pool_initialized, pools, constructed, frame,
                 result, pending, exc, ret, ref>>

\* Mutant of RoAcquireFail: the failure propagates out of initialize_pool.
RoAcquireFail_Propagates(p) ==
  /\ pc[p] = "ro_acq"
  /\ Raise(p, "PoolTimeout")
  /\ UNCHANGED <<mgrVars, frame>>

\* _set_all_connections_readonly, lines 165-167: no connection within the
\* timeout (or the pool was closed); logged, and initialize_pool returns.
RoAcquireFail(p) ==
  /\ pc[p] = "ro_acq"
  /\ ReturnFromInit(p, _pool_initialized, pool, pools)
  /\ UNCHANGED <<_pool_initialized, checkedOut, frame>>

\* _set_all_connections_readonly, lines 161-167: the ALTER ROLE statement has
\* succeeded or failed (a failure is only logged); the connection goes back
\* to the pool and initialize_pool returns.
RoExecDone(p) ==
  /\ pc[p] = "ro_exec"
  /\ checkedOut' = [checkedOut EXCEPT ![ref[p]] = @ - 1]
  /\ ReturnFromInit(p, _pool_initialized, pool, pools)
  /\ UNCHANGED <<_pool_initialized, frame>>

\* ---------------------------------------------------------- execute_query
\* Mutant of Release: the connection is not given back.
Release_Leaks(p) == checkedOut' = checkedOut

\* The connection goes back to the pool (exit of `async with` at line 95).
Release(p) == checkedOut' = [checkedOut EXCEPT ![ref[p]] = @ - 1]

Goto(p, loc) ==
  /\ pc' = Set(pc, p, loc)
  /\ UNCHANGED <<result, pending, exc, ret, ref>>

\* Mutant of Abort: the transaction block commits after a failed statement.
Abort_Commits(p, e) == Goto(p, "tx_commit")

\* A statement on the checked-out connection fails: the transaction block
\* exits with the exception and rolls back.
Abort(p, e) ==
  /\ pc' = Set(pc, p, "tx_rollback")
  /\ exc' = Set(exc, p, e)
  /\ UNCHANGED <<result, pending, ret, ref>>

\* line 95-96: getconn hands out a connection; conn.transaction() is entered.
AcquireOk(p) ==
  /\ pc[p] = "acq"
  /\ pools[ref[p]] = "open"
  /\ checkedOut[ref[p]] < max_size
  /\ checkedOut' = [checkedOut EXCEPT ![ref[p]] = @ + 1]
  /\ Goto(p, "tx_begin")
  /\ UNCHANGED <<pool, _pool_initialized, pools, constructed, frame>>

\* Mutant of AcquireFail: acquisition has no timeout.
AcquireFail_NoTimeout(p) ==
  /\ pc[p] = "acq"
  /\ pools[ref[p]] = "closed"
  /\ Raise(p, "PoolClosed")
  /\ UNCHANGED <<mgrVars, frame>>

\* line 95: no connection within timeout=15.0 (pool exhausted or database
\* unreachable), or the pool was closed while waiting.
AcquireFail(p) ==
  /\ pc[p] = "acq"
  /\ Raise(p, IF pools[ref[p]] = "closed" THEN "PoolClosed" ELSE "PoolTimeout")
  /\ UNCHANGED <<mgrVars, frame>>

\* Mutant of TxBeginOk: the statement is sent without the directive.
TxBeginOk_SkipsDirective(p) ==
  /\ pc[p] = "tx_begin"
  /\ Goto(p, "stmt")
  /\ UNCHANGED <<mgrVars, frame>>

\* lines 96-109: the transaction has begun; a read-only connection sends the
\* SET TRANSACTION READ ONLY directive, any other the statement itself.
TxBeginOk(p) ==
  /\ pc[p] = "tx_begin"
  /\ Goto(p, IF readonly_query THEN "directive" ELSE "stmt")
  /\ UNCHANGED <<mgrVars, frame>>

\* line 96: BEGIN fails; there is no transaction to end, the connection is
\* released and the error propagates.
TxBeginFail(p) ==
  /\ pc[p] = "tx_begin"
  /\ Release(p)
  /\ Raise(p, "DriverError")
  /\ UNCHANGED <<pool, _pool_initialized, pools, constructed, frame>>

\* lines 98-109: the directive succeeded; the statement is sent.
DirectiveOk(p) ==
  /\ pc[p] = "directive"
  /\ Goto(p, "stmt")
  /\ UNCHANGED <<mgrVars, frame>>

DirectiveFail(p) ==
  /\ pc[p] = "directive"
  /\ Abort(p, "DriverError")
  /\ UNCHANGED <<mgrVars, frame>>

\* lines 112-117: the statement produced a result set; fetchall is awaited.
StmtOkRows(p) ==
  /\ pc[p] = "stmt"
  /\ Goto(p, "fetch")
  /\ UNCHANGED <<mgrVars, frame>>

\* lines 145-147: no result set; the transaction block exits normally.
StmtOkNoRows(p) ==
  /\ pc[p] = "stmt"
  /\ Goto(p, "tx_commit")
  /\ UNCHANGED <<mgrVars, frame>>

StmtFail(p) ==
  /\ pc[p] = "stmt"
  /\ Abort(p, "DriverError")
  /\ UNCHANGED <<mgrVars, frame>>

\* lines 117-144: rows fetched and encoded; the transaction block exits.
FetchOk(p) ==
  /\ pc[p] = "fetch"
  /\ Goto(p, "tx_commit")
  /\ UNCHANGED <<mgrVars, frame>>

FetchFail(p) ==
  /\ pc[p] = "fetch"
  /\ Abort(p, "DriverError")
  /\ UNCHANGED <<mgrVars, frame>>

\* The commit succeeded: the connection is released, execute_query returns
\* and run_query returns the parsed rows (lines 169-170);
\* check_connection_health returns whether there are records (line 274), and
\* `SELECT 1` has one.
CommitOk(p) ==
  /\ pc[p] = "tx_commit"
  /\ Release(p)
  /\ pc' = Set(pc, p, "done")
  /\ result' = Set(result, p, IF api[p] = "check_connection_health" THEN "True" ELSE "rows")
  /\ ref' = Set(ref, p, 0)
  /\ UNCHANGED <<pool, _pool_initialized, pools, constructed, frame, pending, exc, ret>>

CommitFail(p) ==
  /\ pc[p] = "tx_commit"
  /\ Release(p)
  /\ Raise(p, "DriverError")
  /\ UNCHANGED <<pool, _pool_initialized, pools, constructed, frame>>

\* The rollback is done: the connection is released and the statement's
\* error propagates.
RollbackDone(p) ==
  /\ pc[p] = "tx_rollback"
  /\ Release(p)
  /\ Raise(p, exc[p])
  /\ UNCHANGED <<pool, _pool_initialized, pools, constructed, frame>>

\* ------------------------------------------------------------------ close
\* close(), line 263: there is no pool; nothing happens.
CloseNoPool ==
  /\ closer = "idle"
  /\ pool = 0
  /\ UNCHANGED <<config, mgrVars, taskVars, closeVars>>

\* close(), lines 263-265: pool.close() is called on the current pool object
\* and marks it closed, whatever state it was in.
CloseBegin ==
  /\ closer = "idle"
  /\ pool # 0
  /\ pools' = [pools EXCEPT ![pool] = "closed"]
  /\ closer' = "cl_close"
  /\ closing' = pool
  /\ UNCHANGED <<config, pool, _pool_initialized, checkedOut, constructed,
                 taskVars>>

\* close(), lines 266-267: pool.close() has returned.
CloseDone ==
  /\ closer = "cl_close"
  /\ pool' = ClosedState.pool
  /\ _pool_initialized' = ClosedState.initialized
  /\ closer' = "idle"
  /\ closing' = 0
  /\ UNCHANGED <<config, pools, checkedOut, constructed, taskVars>>

\* close(), lines 263-267, with a library whose close() returns at once on a
\* pool that open() has not opened yet: line 265 does not suspend and leaves
\* the pool object as it is (its pending open() can still open it), and lines
\* 266-267 reset the manager.  Spec takes close() to mark the pool closed in
\* every state; RaceSpec allows this outcome as well.
CloseUnopened ==
  /\ closer = "idle"
  /\ pool # 0
  /\ pools[pool] = "new"
  /\ pool' = ClosedState.pool
  /\ _pool_initialized' = ClosedState.initialized
  /\ UNCHANGED <<config, pools, checkedOut, constructed, taskVars, closeVars>>

\* ---------------------------------------------------------- specification
Next ==
  \/ CloseNoPool
  \/ CloseBegin
  \/ CloseDone
  \/ \E p \in Tasks :
    \/ RunQueryNoConnection(p)
    \/ RunQueryRejected(p)
    \/ RunQueryExecute(p)
    \/ CtxErrorDone(p)
    \/ OpenDone(p)
    \/ OpenFail(p)
    \/ RoAcquired(p)
    \/ RoAcquireFail(p)
    \/ RoExecDone(p)
    \/ AcquireOk(p)
    \/ AcquireFail(p)
    \/ TxBeginOk(p)
    \/ TxBeginFail(p)
    \/ DirectiveOk(p)
    \/ DirectiveFail(p)
    \/ StmtOkRows(p)
    \/ StmtOkNoRows(p)
    \/ StmtFail(p)
    \/ FetchOk(p)
    \/ FetchFail(p)
    \/ CommitOk(p)
    \/ CommitFail(p)
    \/ RollbackDone(p)

Spec == Init /\ [][Next]_vars

\* Requests and close() calls as in Spec, with either outcome of close() on
\* a pool that is not open yet.
RaceNext == Next \/ CloseUnopened

RaceSpec == Init /\ [][RaceNext]_vars

\* pool.connection(timeout=15.0), line 84: a pending acquisition ends within
\* the timeout, with a connection or with an exception.  Nothing else is
\* assumed to make progress (a holder may keep its connection forever).
AcquisitionEnds == \A p \in Tasks : WF_vars(AcquireOk(p) \/ AcquireFail(p))

FairSpec == Spec /\ AcquisitionEnds

\* ------------------------------------------------- methods called directly
\* PsycopgPoolConnection.__init__, line 26: the default of min_size.
min_size == 1

\* A task calls check_connection_health or initialize_pool on the manager
\* instead of the run_query tool.
DirectCalls == [Tasks -> {"check_connection_health", "initialize_pool"}]

ManagerInit == Fresh /\ call = NoCall /\ api \in DirectCalls /\ main = "mcp_run"

\* check_connection_health, lines 272-273: execute_query('SELECT 1') runs to
\* its first suspension.
CheckConnectionHealth(p) ==
  /\ Callable(p)
  /\ api[p] = "check_connection_health"
  /\ ExecuteQuery(p)
  /\ UNCHANGED frame

\* Mutant of InitializePool: no guard, every call constructs a pool.
InitializePool_Always(p) ==
  /\ Callable(p)
  /\ api[p] = "initialize_pool"
  /\ ConstructPool(p, "api", pools)
  /\ UNCHANGED <<_pool_initialized, checkedOut, frame>>

\* initialize_pool called from outside the class, lines 50-66: the pool is
\* constructed and open() awaited, or the method returns at once.
InitializePool(p) ==
  /\ Callable(p)
  /\ api[p] = "initialize_pool"
  /\ IF pool = 0 /\ ~_pool_initialized
     THEN ConstructPool(p, "api", pools)
     ELSE ReturnNone(p, pool, pools)
  /\ UNCHANGED <<_pool_initialized, checkedOut, frame>>

\* get_pool_stats, lines 281-290.  size and idle are what getattr finds on
\* the pool object (or its default 0); the pool was constructed with the
\* manager's min_size and max_size.
get_pool_stats(size, idle) ==
  IF pool = 0
  THEN [size |-> 0, min_size |-> min_size, max_size |-> max_size, idle |-> 0]
  ELSE [size |-> size, min_size |-> min_size, max_size |-> max_size, idle |-> idle]

\* Mutant of GetPoolStats: asking for the statistics marks the manager ready.
GetPoolStats_Initializes ==
  /\ call' = [op |-> "get_pool_stats", arg |-> 0, out |-> get_pool_stats(0, 0)]
  /\ _pool_initialized' = TRUE
  /\ UNCHANGED <<readonly_query, pool, pools, checkedOut, constructed,
                 taskVars, closeVars, api, main>>

\* get_pool_stats is an ordinary (not async) method: it runs in one step, at
\* any time.
GetPoolStats ==
  /\ \E size \in 0..max_size, idle \in 0..max_size :
       /\ idle <= size
       /\ call' = [op |-> "get_pool_stats", arg |-> 0, out |-> get_pool_stats(size, idle)]
  /\ UNCHANGED sysVars

\* The steps of execute_query and initialize_pool are those of Next; the
\* statement of a health check is `SELECT 1`, which always has a result set,
\* so StmtOkNoRows is not among them.
ManagerNext ==
  \/ CloseNoPool
  \/ CloseBegin
  \/ CloseDone
  \/ \E p \in Tasks :
    \/ CheckConnectionHealth(p)
    \/ InitializePool(p)
    \/ OpenDone(p)
    \/ OpenFail(p)
    \/ RoAcquired(p)
    \/ RoAcquireFail(p)
    \/ RoExecDone(p)
    \/ AcquireOk(p)
    \/ AcquireFail(p)
    \/ TxBeginOk(p)
    \/ TxBeginFail(p)
    \/ DirectiveOk(p)
    \/ DirectiveFail(p)
    \/ StmtOkRows(p)
    \/ StmtFail(p)
    \/ FetchOk(p)
    \/ FetchFail(p)
    \/ CommitOk(p)
    \/ CommitFail(p)
    \/ RollbackDone(p)

ManagerSpec == ManagerInit /\ [][ManagerNext]_vars

\* get_pool_stats reads self.pool and the pool object only.  It is followed
\* through the life of the manager: tasks call initialize_pool, close() is
\* called any number of times, and the statistics are asked for at any time.
StatsInit == Fresh /\ call = NoCall /\ api = [p \in Tasks |-> "initialize_pool"] /\ main = "mcp_run"

StatsNext ==
  \/ GetPoolStats
  \/ CloseNoPool
  \/ CloseBegin
  \/ CloseDone
  \/ \E p \in Tasks :
    \/ InitializePool(p)
    \/ OpenDone(p)
    \/ OpenFail(p)
    \/ RoAcquired(p)
    \/ RoAcquireFail(p)
    \/ RoExecDone(p)

StatsSpec == StatsInit /\ [][StatsNext]_vars

TypeOK ==
  /\ pool \in {0} \cup PoolIds
  /\ constructed \in {0} \cup PoolIds
  /\ _pool_initialized \in BOOLEAN
  /\ \A i \in PoolIds : pools[i] \in {"none", "new", "open", "closed"}
  /\ \A i \in PoolIds : checkedOut[i] \in 0..max_size
  /\ \A p \in Tasks :
       /\ pc[p] \in {"idle", "ctx_err", "done"} \cup ExecPcs
       /\ exc[p] \in Exceptions \cup {"none"}
       /\ ref[p] \in {0} \cup PoolIds
       /\ pc[p] \in ExecPcs => ref[p] \in 1..constructed
       /\ api[p] \in {"run_query", "check_connection_health", "initialize_pool"}
  /\ closer \in {"idle", "cl_close"}
  /\ closer = "cl_close" => closing \in 1..constructed
  /\ main \in {"construct", "validate", "exit_1"} \cup Transports

\* ------------------------------------------------------------------ claims
\* What run_query returns, or is about to return once ctx.error is back.  An
\* error key k stands for the one-row result [{'error': k}], "rows" for the
\* rows of parse_execute_response, "raised" for a propagated exception.
Outcome(p) == IF pc[p] = "ctx_err" THEN pending[p] ELSE result[p]

ErrorKeys ==
  {client_error_code_key, unexpected_error_key, write_query_prohibited_key,
   query_injection_risk_key, no_connection_error}

\* The request had a connection object and has been through the Safety Gate.
Decided(p) == sql[p] # 0

\* The request has called execute_query.
Entered(p) ==
  /\ sql[p] # 0
  /\ pc[p] \in ExecPcs \/ exc[p] # "none" \/ result[p] = "rows"

Finished(p) == pc[p] = "done"

MutationFound(p) == detect_mutating_keywords(Statements[sql[p]]) # {}
InjectionFound(p) == check_sql_injection_risk(Statements[sql[p]]) # {}

\* The request failed after initialization, on the database's side.
DatabaseFailed(p) == exc[p] \in {"DriverError", "PoolTimeout"}
\* The request failed in initialization.
InitFailed(p) == exc[p] \in {"OpenError", "PoolNotOpen", "ValueError"}

\* close() has not been called on a pool: it is not running, and every pool
\* constructed so far is unclosed and still the one the manager references.
NoCloseCalled ==
  /\ closer = "idle"
  /\ \A i \in PoolIds : pools[i] # "none" => (pools[i] # "closed" /\ pool = i)

\* close() has closed a pool and returned; the manager is as it left it.
ClosedAndQuiet ==
  /\ closer = "idle"
  /\ pool = 0
  /\ ~_pool_initialized
  /\ \E i \in PoolIds : pools[i] = "closed"

Users == {p \in Tasks : Entered(p)}

\* C1: when N >= 2 requests use a manager that starts uninitialized (close()
\* closes no pool, and the database fails no acquisition and no statement),
\* exactly one pool is constructed and opened, and once they have all ended
\* either every one of them succeeded or every one of them failed in
\* initialization.
C1_ConcurrentFirstUse ==
  (/\ NoCloseCalled
   /\ Cardinality(Users) >= 2
   /\ \A p \in Users : Finished(p) /\ ~DatabaseFailed(p))
  => /\ constructed = 1
     /\ \/ \A p \in Users : result[p] = "rows"
        \/ \A p \in Users : InitFailed(p)

\* C2: no caller ever uses (asks a connection of) a pool whose open() has not
\* completed.
C2_NoUseBeforeOpen ==
  \A p \in Tasks : exc[p] # "PoolNotOpen"

\* C3: after an initialization attempt has failed (open() raised) and while
\* no initialization or close is in flight and the manager is not
\* initialized, a call that enters execute_query starts a new
\* initialization: it constructs a pool again.
C3_RetryAfterFailedInit ==
  [][\A p \in Tasks :
       (/\ \E q \in Tasks : exc[q] = "OpenError"
        /\ ~_pool_initialized
        /\ closer = "idle"
        /\ \A q \in Tasks : pc[q] \notin InitPcs
        /\ pc[p] = "idle"
        /\ pc'[p] \in ExecPcs \/ exc'[p] # "none")
       => constructed' = constructed + 1]_vars

C5_GateBeforeConnection ==
  \A p \in Tasks :
    /\ Entered(p) =>
         /\ injChecked[p] /\ ~InjectionFound(p)
         /\ readonly_query => (mutChecked[p] /\ ~MutationFound(p))
    /\ (sql[p] # 0 /\ Outcome(p) \in {write_query_prohibited_key, query_injection_risk_key})
         => (~Entered(p) /\ ref[p] = 0)

C5_Witness ==
  \E p, q \in Tasks :
    /\ pc[p] = "tx_begin" /\ injChecked[p] /\ checkedOut[ref[p]] = 1
    /\ result[q] = query_injection_risk_key

\* C6: on a read-only connection, every step of a request whose statement has
\* a mutation keyword leaves the manager (pool reference, flag, pool objects,
\* checked-out connections) unchanged, and the request ends with the
\* mutation-detected rejection.
C6_MutationRejectionFrame ==
  [][\A p \in Tasks :
       (/\ readonly_query
        /\ sql'[p] # 0
        /\ detect_mutating_keywords(Statements[sql'[p]]) # {}
        /\ pending'[p] # no_connection_error
        /\ result'[p] # no_connection_error
        /\ pc[p] # pc'[p])
       => /\ UNCHANGED mgrVars
          /\ \/ pc'[p] = "ctx_err" /\ pending'[p] = write_query_prohibited_key
             \/ pc'[p] = "done" /\ result'[p] = write_query_prohibited_key]_vars

C6_Witness ==
  \E p \in Tasks :
    /\ readonly_query
    /\ result[p] = write_query_prohibited_key
    /\ pool # 0 /\ _pool_initialized /\ checkedOut[pool] = 1

\* C7 (as claimed): the injection scenario statement ends with the
\* injection-risk error on read-only and on other connections alike, without
\* execute_query being called.
C7_ScenarioIsInjectionRejection ==
  \A p \in Tasks :
    (Decided(p) /\ Finished(p) /\ Statements[sql[p]] = InjectionScenario)
      => (result[p] = query_injection_risk_key /\ ~Entered(p))

\* C7 (amended): the injection scenario statement is rejected without
\* execute_query being called: with the injection-risk error on a connection
\* that is not read-only, and with the write-prohibited (mutation-detected)
\* error on a read-only connection.
C7_ScenarioRejected ==
  \A p \in Tasks :
    (Decided(p) /\ Statements[sql[p]] = InjectionScenario)
      => /\ Outcome(p) = IF readonly_query THEN write_query_prohibited_key
                         ELSE query_injection_risk_key
         /\ ~Entered(p)

C7_Witness ==
  \E p \in Tasks :
    /\ Decided(p) /\ Finished(p) /\ Statements[sql[p]] = InjectionScenario
    /\ readonly_query /\ result[p] = write_query_prohibited_key

\* C8: the verdict follows the precedence: read-only and a mutation keyword
\* gives mutation-detected whatever the injection check says; otherwise
\* injection issues give injection-risk-detected; otherwise the statement
\* goes to execution.  Off read-only mode a mutation keyword rejects nothing.
C8_VerdictPrecedence ==
  \A p \in Tasks :
    Decided(p) =>
      /\ (readonly_query /\ MutationFound(p))
           => Outcome(p) = write_query_prohibited_key
      /\ (~(readonly_query /\ MutationFound(p)) /\ InjectionFound(p))
           => Outcome(p) = query_injection_risk_key
      /\ (~(readonly_query /\ MutationFound(p)) /\ ~InjectionFound(p))
           => (Entered(p) /\ Outcome(p) \notin {write_query_prohibited_key, query_injection_risk_key})

C8_Witness ==
  \E p, q \in Tasks :
    /\ ~readonly_query
    /\ sql[p] # 0 /\ MutationFound(p) /\ ~InjectionFound(p) /\ result[p] = "rows"
    /\ sql[q] # 0 /\ MutationFound(q) /\ InjectionFound(q)
    /\ result[q] = query_injection_risk_key

\* C9 (as claimed): every request that went through the gate had its
\* injection check evaluated, and on a read-only connection its mutation
\* check too.
C9_BothChecksAlwaysRun ==
  \A p \in Tasks :
    Decided(p) => (injChecked[p] /\ (readonly_query => mutChecked[p]))

\* C9 (amended): the mutation check is evaluated exactly on read-only
\* connections, and the injection check exactly when the mutation check did
\* not reject: a mutation-detected rejection returns before the injection
\* check is evaluated.
C9_ChecksShortCircuit ==
  \A p \in Tasks :
    Decided(p) =>
      /\ mutChecked[p] = readonly_query
      /\ injChecked[p] = ~(readonly_query /\ MutationFound(p))

C9_Witness ==
  \E p \in Tasks :
    /\ Decided(p) /\ Finished(p) /\ result[p] = write_query_prohibited_key
    /\ InjectionFound(p) /\ ~injChecked[p] /\ mutChecked[p]

\* C10: a finished run_query has returned a value, never propagated a fault:
\* rows, or the one-row error result; and it is the error result whenever the
\* gate rejected or execute_query raised.
C10_NeverPropagates ==
  \A p \in Tasks :
    Finished(p) =>
      /\ result[p] \in ErrorKeys \cup {"rows"}
      /\ exc[p] # "none" => result[p] \in ErrorKeys
      /\ (Decided(p) /\ ((readonly_query /\ MutationFound(p)) \/ InjectionFound(p)))
           => result[p] \in ErrorKeys

C10_Witness ==
  \E p, q \in Tasks :
    /\ Finished(p) /\ exc[p] = "DriverError" /\ result[p] = unexpected_error_key
    /\ Finished(q) /\ exc[q] \in {"PoolNotOpen", "PoolTimeout", "OpenError"}
    /\ result[q] = unexpected_error_key

\* The task holds a checked-out connection of pool object ref[p].
Holding(p) ==
  pc[p] \in {"ro_exec", "tx_begin", "directive", "stmt", "fetch", "tx_commit", "tx_rollback"}

Holders(i) == {p \in Tasks : Holding(p) /\ ref[p] = i}

\* C11: every checked-out connection is held by a request that is still
\* inside its `async with` block; so each exit path (commit, failed BEGIN,
\* directive, statement, fetch or encoding failure, failed commit) has given
\* its connection back, and once no request is in flight no connection is
\* checked out.
C11_ConnectionsReturned ==
  \A i \in PoolIds : checkedOut[i] = Cardinality(Holders(i))

C11_Witness ==
  \E p, q \in Tasks :
    /\ pc[p] = "done" /\ result[p] = "rows"
    /\ pc[q] = "done" /\ exc[q] = "DriverError"
    /\ \A r \in Tasks : pc[r] = "done"
    /\ pool # 0 /\ checkedOut[pool] = 0

\* The request waits for a connection of a pool all of whose max_size
\* connections are checked out.
WaitsOnExhausted(p) ==
  /\ pc[p] = "acq"
  /\ pools[ref[p]] = "open"
  /\ checkedOut[ref[p]] = max_size

\* C12: an acquisition that waits on an exhausted pool does not wait
\* forever; while the pool stays exhausted it can only end with the timeout
\* (or pool-closed) error, and its ending changes nothing for the holders.
C12_ExhaustedAcquireTimesOut ==
  /\ \A p \in Tasks : WaitsOnExhausted(p) ~> (pc[p] # "acq")
  /\ [][\A p \in Tasks :
          (WaitsOnExhausted(p) /\ pc'[p] # "acq")
            => /\ exc'[p] = "PoolTimeout"
               /\ pending'[p] = unexpected_error_key
               /\ UNCHANGED mgrVars
               /\ \A q \in Tasks \ {p} : pc'[q] = pc[q] /\ ref'[q] = ref[q]]_vars

C12_Witness ==
  \E p, q \in Tasks :
    /\ WaitsOnExhausted(p)
    /\ q \in Holders(ref[p])

\* ------------------------------------------------------------ Value Codec
\* Bounds of the codec's and the translator's inputs.
MaxVal == 1
MaxCols == 1
MaxRows == 1
MaxParams == 1
MaxLexemes == 3

\* A native (Python) value: its class and a payload.  Payload 0 is the falsy
\* value of the class (0, 0.0, '', b'', False).  "other" stands for the
\* classes the encoder has no branch for (Decimal, datetime, UUID, ...).
Native(k, n) == [kind |-> k, val |-> n]
None == Native("null", 0)
False == Native("bool", 0)
True == Native("bool", 1)

Payloads == 0..MaxVal
SixKinds == {"null", "str", "int", "float", "bool", "bytes"}

NativeValues ==
  {None, False, True}
    \cup {Native(k, n) : k \in {"str", "int", "float", "bytes", "other"}, n \in Payloads}

\* One value of each class.
KindSamples == {None, True} \cup {Native(k, 1) : k \in {"str", "int", "float", "bytes", "other"}}

\* isinstance(value, cls) for cls in str, int, float, bool, bytes: in Python
\* bool is a subclass of int.
IsInstance(v, cls) == v.kind = cls \/ (cls = "int" /\ v.kind = "bool")

\* bool(value)
Truthy(v) == v.kind # "null" /\ v.val # 0

\* str(value) of a value of another class.
Str(v) == Native("str", v.val)

\* A typed cell is a dict: a function from its keys to native values.
Cell(k, v) == k :> v
EmptyCell == [k \in {} |-> None]

\* execute_query, lines 127-141: the cell of one value of a row.
EncodeValue(v) ==
  IF v.kind = "null" THEN Cell("isNull", True)
  ELSE IF IsInstance(v, "str") THEN Cell("stringValue", v)
  ELSE IF IsInstance(v, "int") THEN Cell("longValue", v)
  ELSE IF IsInstance(v, "float") THEN Cell("doubleValue", v)
  ELSE IF IsInstance(v, "bool") THEN Cell("booleanValue", v)
  ELSE IF IsInstance(v, "bytes") THEN Cell("blobValue", v)
  ELSE Cell("stringValue", Str(v))

\* Mutant of EncodeRow: null values get no cell.
EncodeRow_SkipsNulls(row) ==
  LET live == SelectSeq(row, LAMBDA v : v.kind # "null") IN
    [j \in 1..Len(live) |-> EncodeValue(live[j])]

\* execute_query, lines 124-142: the record of one row.
EncodeRow(row) == [j \in 1..Len(row) |-> EncodeValue(row[j])]

\* execute_query, lines 112-147: the response for what the cursor holds after
\* the statement: description is the sequence of column names when there is
\* a result set (cursor.description is not None), and rows what fetchall
\* returns.
Response(cur) ==
  IF cur.resultSet /\ cur.description # <<>>
  THEN [columnMetadata |-> [j \in 1..Len(cur.description) |-> [name |-> cur.description[j]]],
        records |-> [i \in 1..Len(cur.rows) |-> EncodeRow(cur.rows[i])]]
  ELSE [columnMetadata |-> <<>>, records |-> <<>>]

ExtractKeys ==
  <<"stringValue", "longValue", "doubleValue", "booleanValue", "blobValue", "arrayValue">>

\* Mutant of extract_cell: blobValue is not among the keys looked for.
extract_cell_NoBlob(cell) ==
  IF "isNull" \in DOMAIN cell /\ Truthy(cell["isNull"]) THEN None
  ELSE LET found == {i \in DOMAIN ExtractKeys :
                      ExtractKeys[i] # "blobValue" /\ ExtractKeys[i] \in DOMAIN cell} IN
         IF found = {} THEN None
         ELSE cell[ExtractKeys[CHOOSE i \in found : \A j \in found : i <= j]]

\* server.py extract_cell, lines 55-69.
extract_cell(cell) ==
  IF "isNull" \in DOMAIN cell /\ Truthy(cell["isNull"]) THEN None
  ELSE LET found == {i \in DOMAIN ExtractKeys : ExtractKeys[i] \in DOMAIN cell} IN
         IF found = {} THEN None
         ELSE cell[ExtractKeys[CHOOSE i \in found : \A j \in found : i <= j]]

\* A dict of parameters is a sequence of [name, value] entries in insertion
\* order, each name once.
Put(d, n, v) ==
  IF \E i \in DOMAIN d : d[i].name = n
  THEN [i \in DOMAIN d |-> IF d[i].name = n THEN [name |-> n, value |-> v] ELSE d[i]]
  ELSE Append(d, [name |-> n, value |-> v])

Keys(d) == [i \in DOMAIN d |-> d[i].name]
Has(d, n) == \E i \in DOMAIN d : d[i].name = n
Get(d, n) == d[CHOOSE i \in DOMAIN d : d[i].name = n].value

ValueKeys == <<"stringValue", "longValue", "doubleValue", "booleanValue", "blobValue">>

\* _convert_parameters, lines 177-188: some branch of the chain assigns.
Binds(value) ==
  \/ \E i \in DOMAIN ValueKeys : ValueKeys[i] \in DOMAIN value
  \/ "isNull" \in DOMAIN value /\ Truthy(value["isNull"])

\* _convert_parameters, lines 177-188: what the branch assigns.
Bound(value) ==
  LET found == {i \in DOMAIN ValueKeys : ValueKeys[i] \in DOMAIN value} IN
    IF found = {} THEN None
    ELSE value[ValueKeys[CHOOSE i \in found : \A j \in found : i <= j]]

RECURSIVE ConvertFrom(_, _)
ConvertFrom(parameters, res) ==
  IF parameters = <<>> THEN res
  ELSE LET param == Head(parameters) IN
         ConvertFrom(Tail(parameters),
                     IF Binds(param.value)
                     THEN Put(res, param.name, Bound(param.value))
                     ELSE res)

\* _convert_parameters, lines 169-190.
_convert_parameters(parameters) == ConvertFrom(parameters, <<>>)

\* ---------------------------------------------------- Parameter Translator
\* SQL text is a sequence of characters.
ParamNames == {"id", "id2"}

Chars(n) ==
  CASE n = "id" -> <<"i", "d">>
    [] n = "id2" -> <<"i", "d", "2">>

\* \w of the regular expression.
IsWord(c) == c \in {"i", "d", "2", "x", "s", "_"}
WordAt(text, k) == k \in DOMAIN text /\ IsWord(text[k])

\* Mutant of Boundary: the pattern has no \b.
Boundary_Anywhere(text, j) == TRUE

\* \b before position j of text: exactly one of the characters around it is
\* a word character.
Boundary(text, j) == WordAt(text, j - 1) # WordAt(text, j)

\* line 205: f':{param_name}\\b'
Pattern(n) == <<":">> \o Chars(n)
\* Mutant of Replacement: the placeholder keeps the colon.
Replacement_KeepsColon(n) == <<"%", "(">> \o Pattern(n) \o <<")", "s">>

\* line 206: f'%({param_name})s'
Replacement(n) == <<"%", "(">> \o Chars(n) \o <<")", "s">>

MatchAt(text, i, n) ==
  /\ i + Len(Pattern(n)) - 1 <= Len(text)
  /\ SubSeq(text, i, i + Len(Pattern(n)) - 1) = Pattern(n)
  /\ Boundary(text, i + Len(Pattern(n)))

Matches(text, n) == {i \in DOMAIN text : MatchAt(text, i, n)}

\* line 207: re.sub(pattern, replacement, text), scanning from position i.
RECURSIVE SubFrom(_, _, _)
SubFrom(text, i, n) ==
  IF i > Len(text) THEN <<>>
  ELSE IF MatchAt(text, i, n)
       THEN Replacement(n) \o SubFrom(text, i + Len(Pattern(n)), n)
       ELSE <<text[i]>> \o SubFrom(text, i + 1, n)

\* lines 202-207: one substitution pass per key, in the dict's order.
RECURSIVE ConvertSql(_, _)
ConvertSql(text, names) ==
  IF names = <<>> THEN text
  ELSE ConvertSql(SubFrom(text, 1, Head(names)), Tail(names))

\* _convert_named_parameters_to_psycopg, lines 192-209.
_convert_named_parameters_to_psycopg(text, parameters) ==
  [sql |-> ConvertSql(text, Keys(parameters)), params |-> parameters]

\* ------------------------------------------- calls of the pure functions
\* Sequences over S of length at most n.
\* ------------------------------------------------------- diagnostic tools
\* server.py, lines 184-719: each tool builds one statement and hands it to
\* run_query.  A statement is reduced to the tokens that the Safety Gate, the
\* interpolation of arguments and the parameter translator react to: its
\* first keyword, the relation it reads, comment sequences, interpolated
\* arguments, named placeholders and the closing separator.
FixedTools ==
  {"pg_stat_activity_slow_query_last_5mins", "pg_stat_statements",
   "get_vacuum_progress_current", "oldest_xid_all_databases",
   "oldest_xid_by_database", "percent_towards_xid_wraparound",
   "tables_with_oldest_relfrozedxid", "table_index_bloat_analysis",
   "tables_eligible_for_vacuum", "tables_high_dead_tuple_ratio",
   "prepared_transactions_check", "pg_stat_statements_by_calls"}

DiagnosticTools ==
  FixedTools \cup {"get_table_schema", "pg_stat_tables_vacuum_info",
                   "table_autovacuum_settings", "long_running_transactions",
                   "inactive_replication_slots"}

\* The tools with an `except Exception` around their run_query call.
ExtensionTools == {"pg_stat_statements", "pg_stat_statements_by_calls"}

extension_error ==
  "pg_stat_statements extension is not installed or enabled. Please install and configure the extension."
table_name_required == "table_name parameter is required"

\* The relation a fixed statement reads.
Relation(tool) ==
  CASE tool \in ExtensionTools -> "pg_stat_statements"
    [] tool \in {"pg_stat_activity_slow_query_last_5mins"} -> "pg_stat_activity"
    [] tool = "get_vacuum_progress_current" -> "pg_stat_progress_vacuum"
    [] tool \in {"oldest_xid_all_databases", "oldest_xid_by_database"} -> "pg_database"
    [] tool = "percent_towards_xid_wraparound" -> "per_database_stats"
    [] tool = "tables_with_oldest_relfrozedxid" -> "pg_class"
    [] tool = "table_index_bloat_analysis" -> "table_bloat"
    [] tool = "tables_eligible_for_vacuum" -> "pg_class"
    [] tool = "tables_high_dead_tuple_ratio" -> "pg_stat_user_tables"
    [] OTHER -> "pg_prepared_xacts"

\* The first keyword of a fixed statement.
Opening(tool) ==
  IF tool \in {"percent_towards_xid_wraparound", "table_index_bloat_analysis",
               "tables_eligible_for_vacuum"}
  THEN "WITH" ELSE "SELECT"

\* The value of the `sql` local of a tool called with argument a (table_name,
\* table_names or database_instance; the last is only logged).
ToolSql(tool, a) ==
  CASE tool = "get_table_schema" ->
         <<"SELECT", "FROM", "pg_attribute", "WHERE", "a.attrelid", "=",
           "to_regclass", "(", ":table_name", ")">>
    [] tool = "pg_stat_tables_vacuum_info" ->
         <<"SELECT", "FROM", "pg_stat_all_tables", "WHERE", "(", "'", a, "'", "=", "''",
           "OR", "relname", "=", "ANY", "(", "string_to_array", "(", "'", a, "'", ")",
           ")", ")", ";">>
    [] tool = "table_autovacuum_settings" ->
         <<"SELECT", "FROM", "pg_class", "WHERE", "c.relname", "=", "'", a, "'", ";">>
    [] tool = "long_running_transactions" ->
         <<"SELECT", "FROM", "pg_stat_activity", "WHERE", "pid", "!=", "pg_backend_pid",
           "(", ")", "--", "Exclude", "current", "session", "LIMIT", "15", ";">>
    [] tool = "inactive_replication_slots" ->
         <<"SELECT", "slot_name", "--", "Estimate", "potential", "disk", "space",
           "FROM", "pg_replication_slots", ";">>
    [] OTHER -> <<Opening(tool), "FROM", Relation(tool), ";">>

\* The query_parameters a tool passes (get_table_schema, line 216).
ToolParameters(tool, a) ==
  IF tool = "get_table_schema"
  THEN <<[name |-> "table_name", value |-> [stringValue |-> a]]>>
  ELSE <<>>

\* What a tool does before run_query: table_autovacuum_settings returns an
\* error row of its own when table_name is empty (lines 499-500); every other
\* call hands sql and parameters to run_query.
DiagnosticRequest(tool, a) ==
  IF tool = "table_autovacuum_settings" /\ a = ""
  THEN [returned |-> table_name_required, sql |-> <<>>, parameters |-> <<>>]
  ELSE [returned |-> "none", sql |-> ToolSql(tool, a), parameters |-> ToolParameters(tool, a)]

\* What execute_query does with a diagnostic statement: it returns rows, or
\* raises; UndefinedTable is the database's `relation "pg_stat_statements"
\* does not exist`.
Failures == {"none", "DriverError", "UndefinedTable", "PoolTimeout"}

\* run_query, lines 144-181, as a function of the connection's mode, the
\* statement and what execute_query does when it is reached.
RunQueryOutcome(ro, s, failure) ==
  LET g == SafetyGate(ro, s) IN
    IF g.verdict # "allowed" THEN g.verdict
    ELSE IF failure = "none" THEN "rows"
    ELSE IF ExceptionHandler(failure) = "uncaught" THEN "raised"
    ELSE ExceptionHandler(failure)

\* pg_stat_statements and pg_stat_statements_by_calls, lines 263-270 and
\* 712-719: an exception that leaves run_query and mentions
\* pg_stat_statements becomes the extension error row; any other is raised
\* again.  The other tools return what run_query returns.
ToolHandler(tool, outcome, failure) ==
  IF tool \in ExtensionTools /\ outcome = "raised" /\ failure = "UndefinedTable"
  THEN extension_error ELSE outcome

\* Caller-supplied argument values.
ToolArguments == {"", "orders", "users"}

ToolCallInputs ==
  [tool : DiagnosticTools, argument : ToolArguments, readonly : BOOLEAN, failure : Failures]

\* ------------------------------------------------- parse_execute_response
\* parse_execute_response, line 78: the dict comprehension over
\* zip(columns, row), taken pair by pair from position k on: a key that is
\* already in the dict gets the new value and keeps its place.
RECURSIVE RowData(_, _, _, _)
RowData(columns, row, k, res) ==
  IF k > Len(columns) \/ k > Len(row) THEN res
  ELSE RowData(columns, row, k + 1, Put(res, columns[k], extract_cell(row[k])))

\* server.py parse_execute_response, lines 72-81: one dict per record.
parse_execute_response(response) ==
  LET columns == [j \in DOMAIN response.columnMetadata |-> response.columnMetadata[j].name]
  IN [i \in DOMAIN response.records |-> RowData(columns, response.records[i], 1, <<>>)]

\* main, lines 826-831 (the test a caller makes for the error sentinel): a
\* one-element list whose row is a dict with an `error` key.
HasErrorShape(rows) == Len(rows) = 1 /\ Has(rows[1], "error")

\* --------------------------------------------- stdio HTTP wrapper (run.py)
\* An exception with its class; HTTPException carries the status the
\* framework answers with.
HTTPException(status, text) ==
  [raised |-> TRUE, cls |-> "HTTPException", status_code |-> status, detail |-> text]
JSONDecodeError ==
  [raised |-> TRUE, cls |-> "JSONDecodeError", status_code |-> 0, detail |-> "JSONDecodeError"]
BrokenPipeError ==
  [raised |-> TRUE, cls |-> "BrokenPipeError", status_code |-> 0, detail |-> "BrokenPipeError"]
Returned(v) == [raised |-> FALSE, value |-> v]

\* The child process: never started (mcp_process is None), running, or
\* exited (poll() is not None).
ChildStates == {"None", "running", "exited"}
\* What the child does with a request: it answers a JSON line or a line that
\* is not JSON, closes its output (readline returns ''), or its input pipe is
\* broken.
ChildReplies == {"json", "garbage", "", "broken_pipe"}
\* The request body: JSON or not.
Bodies == {"json", "garbage"}

\* send_mcp_request, lines 52-61: the body of the try block.
Communicate(reply) ==
  CASE reply = "broken_pipe" -> BrokenPipeError
    [] reply = "" -> HTTPException(503, "No response from MCP server")
    [] reply = "garbage" -> JSONDecodeError
    [] OTHER -> Returned("json")

\* send_mcp_request, lines 44-65: `except Exception` catches whatever the
\* try block raised, the HTTPException of line 59 included.
send_mcp_request(process, reply) ==
  IF process # "running"
  THEN HTTPException(503, "MCP server not available")
  ELSE IF Communicate(reply).raised
       THEN HTTPException(503, "MCP server communication error")
       ELSE Communicate(reply)

\* mcp_endpoint, lines 91-95: the handlers of the endpoint's try block.
\* HTTPException is an Exception and not a JSONDecodeError.
EndpointHandler(e) ==
  IF e.cls = "JSONDecodeError"
  THEN HTTPException(400, "Invalid JSON")
  ELSE HTTPException(500, e.detail)

\* mcp_endpoint, lines 83-95: the HTTP status the client receives (the
\* framework answers an HTTPException with its status_code, a JSONResponse
\* with 200).
mcp_endpoint(body, process, reply) ==
  LET tried == IF body = "garbage" THEN JSONDecodeError
               ELSE send_mcp_request(process, reply)
  IN IF tried.raised THEN EndpointHandler(tried).status_code ELSE 200

McpPosts == [body : Bodies, process : ChildStates, reply : ChildReplies]

SeqsUpTo(S, n) == UNION {[1..k -> S] : k \in 0..n}

ColumnNames == {"id", "error"}

\* What the cursor holds after the statement: no result set, or the column
\* names and the fetched rows, each row with one value per column.
Cursors ==
  {[resultSet |-> FALSE, description |-> <<>>, rows |-> <<>>]}
    \cup
  UNION {{[resultSet |-> TRUE, description |-> d, rows |-> rs] :
            rs \in SeqsUpTo([1..Len(d) -> KindSamples], MaxRows)} :
         d \in SeqsUpTo(ColumnNames, MaxCols)}

\* Result sets of two columns, as a join or two aliases produce them, the
\* two names equal or not.
WideCursors ==
  {[resultSet |-> TRUE, description |-> d, rows |-> <<r>>] :
     d \in [1..2 -> ColumnNames],
     r \in [1..2 -> {None, Native("str", 1), Native("int", 1)}]}

\* Cells as a caller or a data source may hand them in.
Cells ==
  {EncodeValue(v) : v \in NativeValues}
    \cup {EmptyCell, Cell("isNull", False), Cell("arrayValue", Native("str", 1)),
          Cell("isNull", True) @@ Cell("stringValue", Native("str", 1)),
          Cell("isNull", False) @@ Cell("longValue", Native("int", 1)),
          Cell("stringValue", Native("str", 1)) @@ Cell("longValue", Native("int", 0))}

ParameterLists ==
  SeqsUpTo({[name |-> n, value |-> c] : n \in ParamNames, c \in Cells}, MaxParams)

\* SQL text: up to MaxLexemes of these pieces, concatenated.
Lexemes ==
  {Pattern("id"), Pattern("id2"), <<":">>, <<"'">>, <<" ">>, <<"x">>}

RECURSIVE Concat(_)
Concat(pieces) == IF pieces = <<>> THEN <<>> ELSE Head(pieces) \o Concat(Tail(pieces))

Texts == {Concat(ps) : ps \in SeqsUpTo(Lexemes, MaxLexemes)}

\* The parameters of a statement: each name at most once, in either order.
NameLists == {ns \in SeqsUpTo(ParamNames, Cardinality(ParamNames)) :
                \A i, j \in DOMAIN ns : ns[i] = ns[j] => i = j}

StatementParameters(ns) ==
  [i \in DOMAIN ns |-> [name |-> ns[i], value |-> Cell("longValue", Native("int", MaxVal))]]

Input(o, a) == [op |-> o, arg |-> a, out |-> 0]

PureInputs ==
  {Input("value", v) : v \in NativeValues}
    \cup {Input("cursor", c) : c \in Cursors \cup WideCursors}
    \cup {Input("cell", c) : c \in Cells}
    \cup {Input("parameters", ps) : ps \in ParameterLists}
    \cup {Input("statement", [sql |-> s, parameters |-> StatementParameters(ns)]) :
            s \in Texts, ns \in NameLists}
    \cup {Input("tool", c) : c \in ToolCallInputs}
    \cup {Input("mcp_post", c) : c \in McpPosts}

PureInit == Fresh /\ ~readonly_query /\ call \in PureInputs /\ api = ToolCalls /\ main = "mcp_run"

\* The call's record once the function has returned v.
Applied(to, v) == [op |-> to, arg |-> call.arg, out |-> v]

\* execute_query, lines 127-141, on one value.
EncodeCell ==
  /\ call.op = "value"
  /\ call' = Applied("encoded", EncodeValue(call.arg))
  /\ UNCHANGED sysVars

\* The encoded cell is decoded as a result cell.
DecodeResultCell ==
  /\ call.op = "encoded"
  /\ call' = Applied("result_decoded", extract_cell(call.out))
  /\ UNCHANGED sysVars

\* The encoded cell is decoded as the value of a parameter.
DecodeParameterCell ==
  /\ call.op = "encoded"
  /\ call' = Applied("parameter_decoded",
                     _convert_parameters(<<[name |-> "id", value |-> call.out]>>))
  /\ UNCHANGED sysVars

\* execute_query, lines 112-147.
BuildResponse ==
  /\ call.op = "cursor"
  /\ call' = Applied("response", Response(call.arg))
  /\ UNCHANGED sysVars

ExtractCell ==
  /\ call.op = "cell"
  /\ call' = Applied("extracted", extract_cell(call.arg))
  /\ UNCHANGED sysVars

ConvertParameters ==
  /\ call.op = "parameters"
  /\ call' = Applied("converted", _convert_parameters(call.arg))
  /\ UNCHANGED sysVars

\* execute_query, lines 103-105.
TranslateStatement ==
  /\ call.op = "statement"
  /\ call' = Applied("translated",
                     _convert_named_parameters_to_psycopg(
                       call.arg.sql, _convert_parameters(call.arg.parameters)))
  /\ UNCHANGED sysVars

\* The translated statement is translated again.
Retranslate ==
  /\ call.op = "translated"
  /\ call' = Applied("retranslated",
                     [first |-> call.out,
                      second |-> _convert_named_parameters_to_psycopg(call.out.sql,
                                                                      call.out.params)])
  /\ UNCHANGED sysVars

\* A diagnostic tool builds its statement (or returns its own error row).
PrepareDiagnostic ==
  /\ call.op = "tool"
  /\ call' = Applied("tool_request", DiagnosticRequest(call.arg.tool, call.arg.argument))
  /\ UNCHANGED sysVars

\* The tool calls run_query and returns.
CompleteDiagnostic ==
  /\ call.op = "tool_request"
  /\ call.out.returned = "none"
  /\ LET outcome == RunQueryOutcome(call.arg.readonly, call.out.sql, call.arg.failure) IN
       call' = Applied("tool_result",
                       [request |-> call.out,
                        verdict |-> SafetyGate(call.arg.readonly, call.out.sql).verdict,
                        result |-> ToolHandler(call.arg.tool, outcome, call.arg.failure)])
  /\ UNCHANGED sysVars

\* run_query, lines 167-170: the response of execute_query is parsed and
\* returned.
ParseResponse ==
  /\ call.op = "response"
  /\ call' = Applied("parsed", [response |-> call.out,
                                rows |-> parse_execute_response(call.out)])
  /\ UNCHANGED sysVars

\* POST /mcp is handled.
McpEndpoint ==
  /\ call.op = "mcp_post"
  /\ call' = Applied("mcp_response",
                     [status_code |-> mcp_endpoint(call.arg.body, call.arg.process,
                                                   call.arg.reply)])
  /\ UNCHANGED sysVars

PureNext ==
  \/ EncodeCell
  \/ DecodeResultCell
  \/ DecodeParameterCell
  \/ BuildResponse
  \/ ExtractCell
  \/ ConvertParameters
  \/ TranslateStatement
  \/ Retranslate
  \/ PrepareDiagnostic
  \/ CompleteDiagnostic
  \/ McpEndpoint
  \/ ParseResponse

PureSpec == PureInit /\ [][PureNext]_vars

\* C13: a boolean value is encoded as a booleanValue cell, never as a
\* longValue cell, and an integer as a longValue cell, never as a
\* doubleValue cell.
C13_BooleanNeverInteger ==
  call.op = "encoded" =>
    /\ call.arg.kind = "bool" => DOMAIN call.out = {"booleanValue"}
    /\ call.arg.kind = "int" => DOMAIN call.out = {"longValue"}

\* C14: a value of one of the six kinds is encoded to a cell with exactly
\* one key (isNull for null and only for null), and decoding that cell, as a
\* result cell or as the value of a parameter, gives the value back.
C14_CodecRoundTrip ==
  (call.op \in {"encoded", "result_decoded", "parameter_decoded"}
     /\ call.arg.kind \in SixKinds) =>
    /\ call.op = "encoded" =>
         /\ Cardinality(DOMAIN call.out) = 1
         /\ ("isNull" \in DOMAIN call.out) = (call.arg.kind = "null")
    /\ call.op = "result_decoded" => call.out = call.arg
    /\ call.op = "parameter_decoded" =>
         call.out = <<[name |-> "id", value |-> call.arg]>>

C14_Witness ==
  /\ call.op = "result_decoded"
  /\ call.arg = Native("bytes", 1)
  /\ call.out = Native("bytes", 1)

\* C15: every record of a response has one cell per entry of columnMetadata,
\* the cell of the value in that column; columnMetadata names the columns in
\* order; and without a result set columnMetadata and records are empty.
C15_ResponseShape ==
  call.op = "response" =>
    /\ \A i \in DOMAIN call.out.records :
         /\ Len(call.out.records[i]) = Len(call.out.columnMetadata)
         /\ \A j \in DOMAIN call.out.records[i] :
              call.out.records[i][j] = EncodeValue(call.arg.rows[i][j])
    /\ \A j \in DOMAIN call.out.columnMetadata :
         call.out.columnMetadata[j].name = call.arg.description[j]
    /\ ~call.arg.resultSet => (call.out.columnMetadata = <<>> /\ call.out.records = <<>>)
    /\ (call.arg.resultSet /\ call.arg.description # <<>>)
         => /\ Len(call.out.columnMetadata) = Len(call.arg.description)
            /\ Len(call.out.records) = Len(call.arg.rows)

C15_Witness ==
  /\ call.op = "response"
  /\ call.out.records # <<>>
  /\ call.out.columnMetadata # <<>>
  /\ \E i \in DOMAIN call.arg.rows : \E j \in DOMAIN call.arg.rows[i] :
       call.arg.rows[i][j] = None

\* The positions where piece occurs in text.
Occurrences(text, piece) ==
  {i \in DOMAIN text :
     i + Len(piece) - 1 <= Len(text) /\ SubSeq(text, i, i + Len(piece) - 1) = piece}

\* The text with every driver placeholder %(name)s put back to :name.
RECURSIVE RestoreFrom(_, _)
RestoreFrom(text, i) ==
  IF i > Len(text) THEN <<>>
  ELSE IF \E n \in ParamNames : i \in Occurrences(text, Replacement(n))
       THEN LET n == CHOOSE m \in ParamNames : i \in Occurrences(text, Replacement(m)) IN
              Pattern(n) \o RestoreFrom(text, i + Len(Replacement(n)))
       ELSE <<text[i]>> \o RestoreFrom(text, i + 1)

Reverse(s) == [i \in DOMAIN s |-> s[Len(s) + 1 - i]]

\* C16: the translated SQL has no `:name` followed by a word boundary left
\* for any name of the map, one %(name)s for each such occurrence of the
\* text, and is the text otherwise: placeholders of names that are not in
\* the map are as they were (`:id2` is not altered by a parameter id), and
\* putting the :name back gives the text.  The order of the names in the map
\* does not matter.
C16_PlaceholdersTranslated ==
  call.op = "translated" =>
    LET text == call.arg.sql
        names == Keys(call.out.params)
        there == {names[i] : i \in DOMAIN names}
    IN /\ \A n \in there :
            /\ Matches(call.out.sql, n) = {}
            /\ Cardinality(Occurrences(call.out.sql, Replacement(n)))
                 = Cardinality(Matches(text, n))
       /\ \A n \in ParamNames \ there :
            /\ Cardinality(Matches(call.out.sql, n)) = Cardinality(Matches(text, n))
            /\ Occurrences(call.out.sql, Replacement(n)) = {}
       /\ RestoreFrom(call.out.sql, 1) = text
       /\ ConvertSql(text, Reverse(names)) = call.out.sql

C16_Witness ==
  /\ call.op = "translated"
  /\ Keys(call.out.params) = <<"id">>
  /\ call.arg.sql = Pattern("id2") \o <<" ">> \o Pattern("id")
  /\ call.out.sql = Pattern("id2") \o <<" ">> \o Replacement("id")

\* C17: with the parameter map {id: v} and SQL holding one :id placeholder,
\* the translated SQL holds %(id)s exactly once and the driver map binds id
\* to v; and translating a translated statement again changes nothing.
C17_RewriteIdempotent ==
  /\ (/\ call.op = "translated"
      /\ Keys(call.out.params) = <<"id">>
      /\ Cardinality(Matches(call.arg.sql, "id")) = 1)
       => /\ Cardinality(Occurrences(call.out.sql, Replacement("id"))) = 1
          /\ Matches(call.out.sql, "id") = {}
          /\ call.out.params = <<[name |-> "id", value |-> Native("int", MaxVal)]>>
  /\ call.op = "retranslated" => call.out.second = call.out.first

C17_Witness ==
  /\ call.op = "retranslated"
  /\ call.arg.sql = <<"x", " ">> \o Pattern("id")
  /\ Keys(call.out.first.params) = <<"id">>
  /\ call.out.second.sql = <<"x", " ">> \o Replacement("id")

\* Position i of text is inside a quoted string literal of a text whose
\* literals are all closed.
InLiteral(text, i) ==
  /\ Cardinality({k \in 1..(i - 1) : text[k] = "'"}) % 2 = 1
  /\ Cardinality({k \in DOMAIN text : text[k] = "'"}) % 2 = 0

\* C18: when every placeholder of a parameter's name in the text is inside a
\* quoted string literal, the translator leaves the text as it is.
C18_LiteralsUntouched ==
  call.op = "translated" =>
    ((\A i \in DOMAIN call.out.params :
        \A k \in Matches(call.arg.sql, call.out.params[i].name) :
          InLiteral(call.arg.sql, k))
       => call.out.sql = call.arg.sql)

\* No value field of the cell is populated.
NoValueField(cell) ==
  DOMAIN cell \cap {ExtractKeys[i] : i \in DOMAIN ExtractKeys} = {}

\* C19: a cell with no value field decodes to null: extract_cell returns
\* None, and _convert_parameters binds every parameter's name, to None when
\* the (last) value given under that name has no value field.
C19_UnpopulatedDecodesNull ==
  /\ (call.op = "extracted" /\ NoValueField(call.arg)) => call.out = None
  /\ call.op = "converted" =>
       \A i \in DOMAIN call.arg :
         /\ Has(call.out, call.arg[i].name)
         /\ (/\ NoValueField(call.arg[i].value)
             /\ \A j \in DOMAIN call.arg : call.arg[j].name = call.arg[i].name => j <= i)
              => Get(call.out, call.arg[i].name) = None

\* C20: on a read-only connection, whichever way the administrative ALTER
\* ROLE step ends (no connection for it, statement failed or succeeded), as
\* long as close() has closed no pool, initialization has completed: the
\* flag stays set, the pool stays in place and open, nothing is raised, and
\* the request goes on to acquire its connection.
C20_ReadonlySetupFailureTolerated ==
  [][\A p \in Tasks :
       (/\ NoCloseCalled
        /\ pc[p] \in {"ro_acq", "ro_exec"}
        /\ pc'[p] \notin {"ro_acq", "ro_exec"})
       => /\ readonly_query
          /\ _pool_initialized /\ _pool_initialized'
          /\ pool' = pool /\ pools'[pool'] = "open"
          /\ exc'[p] = "none"
          /\ pc'[p] = "acq" /\ ref'[p] = pool']_vars

C20_Witness ==
  \E q \in Tasks :
    /\ readonly_query /\ _pool_initialized
    /\ NoCloseCalled /\ constructed = 1
    /\ pc[1] = "acq" /\ ref[1] = pool
    /\ q # 1 /\ Holding(q) /\ checkedOut[pool] = max_size

\* C21: on a read-only connection the events on the checked-out connection
\* come in the order transaction opened, read-only directive, caller's
\* statement: the directive is sent only once the transaction has begun, the
\* statement only once the directive has succeeded, the task holds the
\* connection while either is in flight, and a failed directive leads to the
\* rollback without the statement ever being sent.
C21_DirectiveBeforeStatement ==
  [][readonly_query =>
       \A p \in Tasks :
         /\ (pc'[p] = "directive" /\ pc[p] # "directive") => pc[p] = "tx_begin"
         /\ (pc'[p] = "stmt" /\ pc[p] # "stmt") => pc[p] = "directive"
         /\ pc'[p] \in {"directive", "stmt"}
              => Holding(p)' /\ checkedOut'[ref'[p]] >= 1
         /\ (pc[p] = "directive" /\ pc'[p] # "directive")
              => \/ pc'[p] = "stmt" /\ exc'[p] = "none"
                 \/ pc'[p] = "tx_rollback" /\ exc'[p] = "DriverError"
         /\ pc[p] = "tx_rollback" => pc'[p] \in {"tx_rollback", "ctx_err", "done"}
         /\ pc[p] \in {"ctx_err", "done"} => pc'[p] \in {"ctx_err", "done"}]_vars

C21_Witness ==
  \E p \in Tasks : readonly_query /\ pc[p] = "stmt" /\ Holding(p)

\* A pool object exists (constructed, open or closed).
PoolExists == constructed > 0 \/ pool # 0 \/ \E i \in PoolIds : pools[i] # "none"

\* C23: the pool is opened lazily.  As long as no request has called
\* execute_query the manager is as the constructor left it: no pool object,
\* the flag unset, no connection checked out; a pool exists only once some
\* request has started initialization.
C23_LazyPool ==
  /\ (\A p \in Tasks : ~Entered(p))
       => /\ ~PoolExists
          /\ ~_pool_initialized
          /\ \A i \in PoolIds : checkedOut[i] = 0
  /\ PoolExists => \E p \in Tasks : Entered(p)

\* The first request is in initialization: the pool exists and is not open yet.
C23_Witness ==
  /\ pc[1] = "ip_open" /\ pool = 1 /\ pools[1] = "new" /\ constructed = 1
  /\ pc[2] = "idle"

\* The transaction of the request is open (BEGIN done, no COMMIT or ROLLBACK
\* sent yet).
InTransaction(p) == pc[p] \in {"directive", "stmt", "fetch"}

\* C30: every transaction opened by execute_query ends exactly once before
\* its connection goes back to the pool.  While it is open the connection is
\* not released; it goes to COMMIT only from a statement or fetch that
\* completed with no error, to ROLLBACK only with the error of the directive,
\* statement or fetch; a COMMIT is never followed by a ROLLBACK nor a
\* ROLLBACK by a COMMIT; the connection is released when the COMMIT or
\* ROLLBACK is over, and after a ROLLBACK the same error leaves execute_query
\* (run_query turns it into the unexpected-error row).
C30_TransactionEndsOnce ==
  [][\A p \in Tasks :
       /\ (InTransaction(p) /\ pc'[p] # pc[p])
            => /\ InTransaction(p)' \/ pc'[p] \in {"tx_commit", "tx_rollback"}
               /\ checkedOut'[ref[p]] >= 1 /\ Holding(p)'
       /\ (pc'[p] = "tx_commit" /\ pc[p] # "tx_commit")
            => pc[p] \in {"stmt", "fetch"} /\ exc'[p] = "none"
       /\ (pc'[p] = "tx_rollback" /\ pc[p] # "tx_rollback")
            => InTransaction(p) /\ exc'[p] = "DriverError"
       /\ (pc[p] = "tx_commit" /\ pc'[p] # "tx_commit")
            => /\ checkedOut'[ref[p]] = checkedOut[ref[p]] - 1
               /\ \/ pc'[p] = "done" /\ result'[p] = "rows" /\ exc'[p] = "none"
                  \/ pc'[p] = "ctx_err" /\ exc'[p] = "DriverError"
       /\ (pc[p] = "tx_rollback" /\ pc'[p] # "tx_rollback")
            => /\ checkedOut'[ref[p]] = checkedOut[ref[p]] - 1
               /\ exc'[p] = exc[p] /\ exc[p] = "DriverError"
               /\ pc'[p] = "ctx_err" /\ pending'[p] = unexpected_error_key]_vars

\* One request has committed and returned rows, another is rolling back.
C30_Witness ==
  \E p, q \in Tasks :
    /\ pc[p] = "tx_rollback" /\ exc[p] = "DriverError" /\ Holding(p)
    /\ Finished(q) /\ result[q] = "rows"

\* The manager is Ready: the flag is set and self.pool is an open pool.
Ready == _pool_initialized /\ pool # 0 /\ pools[pool] = "open"

\* C22: initialize_pool is idempotent.  A call that starts while the manager
\* is Ready, from whichever task, constructs no pool, opens none, takes no
\* connection for the ALTER ROLE statement, leaves the manager as it is, and
\* (called directly) returns at once with no exception.
C22_InitializeIdempotent ==
  [][\A p \in Tasks :
       (Ready /\ pc[p] = "idle" /\ pc'[p] # "idle")
       => /\ UNCHANGED mgrVars
          /\ pc'[p] \notin InitPcs
          /\ api[p] = "initialize_pool"
               => pc'[p] = "done" /\ result'[p] = "None" /\ exc'[p] = "none"]_vars

\* Two direct calls have returned, the second on a Ready manager: one pool.
C22_Witness ==
  \E p, q \in Tasks :
    /\ p # q /\ api[p] = "initialize_pool" /\ api[q] = "initialize_pool"
    /\ Finished(p) /\ result[p] = "None"
    /\ Finished(q) /\ result[q] = "None"
    /\ Ready /\ constructed = 1

\* C24: get_pool_stats is read-only and never blocks.  Whatever the manager's
\* state (no pool, initializing, ready, closing or closed), a call is one step
\* that returns size, idle, min_size and max_size, with the configured bounds,
\* and changes nothing else: self.pool, the flag, the pool objects, the
\* connections checked out and every task stay as they are, so no
\* initialization is started.  With no pool it reports size 0 and idle 0.
C24_StatsReadOnly ==
  [][(/\ call'.op = "get_pool_stats"
      /\ call.op = "get_pool_stats" => call'.out # call.out)
     => /\ UNCHANGED sysVars
        /\ DOMAIN call'.out = {"size", "idle", "min_size", "max_size"}
        /\ call'.out.min_size = min_size
        /\ call'.out.max_size = max_size
        /\ pool = 0 => call'.out.size = 0 /\ call'.out.idle = 0]_vars

\* The statistics were asked for while the first pool was being opened.
C24_Witness ==
  /\ call.op = "get_pool_stats"
  /\ call.out.size = max_size
  /\ constructed = 1 /\ pools[1] = "new" /\ ~_pool_initialized

Category(p) ==
  CASE result[p] = write_query_prohibited_key -> "mutation-detected"
    [] result[p] = query_injection_risk_key -> "injection-risk-detected"
    [] exc[p] \in {"OpenError", "PoolNotOpen", "PoolClosed", "PoolTimeout", "ValueError"}
         -> "PoolUnavailable"
    [] exc[p] = "DriverError" -> "DriverError"
    [] OTHER -> "none"

\* C27: the `error` field of the one-row error result identifies the error
\* category: two finished requests whose errors are of different categories
\* carry different `error` values.
C27_ErrorFieldTellsCategory ==
  \A p, q \in Tasks :
    (/\ Finished(p) /\ Finished(q)
     /\ Category(p) # "none" /\ Category(q) # "none"
     /\ Category(p) # Category(q))
    => result[p] # result[q]

\* C26: when pg_stat_statements or pg_stat_statements_by_calls fails because
\* the extension is not installed (the database reports that relation
\* pg_stat_statements does not exist), the caller receives the 'extension is
\* not installed or enabled' error row, not the unexpected-error row.
C26_ExtensionErrorReported ==
  (/\ call.op = "tool_result"
   /\ call.arg.tool \in ExtensionTools
   /\ call.arg.failure = "UndefinedTable"
   /\ call.out.verdict = "allowed")
  => /\ call.out.result = extension_error
     /\ call.out.result # unexpected_error_key

\* C28: the SQL text of every diagnostic operation is a fixed string: the
\* statement a tool hands to run_query is the same for every argument value,
\* and the argument does not occur in it (it travels as a bound parameter
\* only).
C28_DiagnosticSqlFixed ==
  (call.op = "tool_request" /\ call.out.returned = "none")
  => /\ \A a \in ToolArguments :
          DiagnosticRequest(call.arg.tool, a).returned = "none"
            => DiagnosticRequest(call.arg.tool, a).sql = call.out.sql
     /\ call.arg.argument # ""
          => \A i \in DOMAIN call.out.sql : call.out.sql[i] # call.arg.argument

\* C29: on a read-only connection, the statement of every built-in diagnostic
\* tool passes the mutation check and the injection-risk check and reaches
\* execution.
C29_DiagnosticsPassGate ==
  (/\ call.op = "tool_result"
   /\ call.arg.readonly)
  => /\ detect_mutating_keywords(call.out.request.sql) = {}
     /\ check_sql_injection_risk(call.out.request.sql) = {}
     /\ call.out.verdict = "allowed"
     /\ call.out.result \notin {write_query_prohibited_key, query_injection_risk_key}

\* C32: in every state reachable by interleaving initialize_pool,
\* execute_query and close at their await points, the initialization flag
\* implies that a pool exists: _pool_initialized is true only if self.pool is
\* not None.
C32_FlagImpliesPool == _pool_initialized => pool # 0

\* C33: at most one pool is live at any time and none is leaked: every pool
\* that was opened is either the one the manager references or has been
\* closed, also when close() races with an initialization in flight.
C33_NoPoolLeaked == \A i \in PoolIds : pools[i] = "open" => pool = i

\* The manager is as __init__ leaves it: no pool, flag false.
FreshManager == pool = 0 /\ ~_pool_initialized

\* C34: close() is safe to repeat and resets the manager.  A close() that
\* finds no pool awaits nothing and changes nothing (CloseNoPool is such a
\* call: it can be made in every state with no close() running and no pool,
\* and it leaves the state as it is); a close() that has closed a pool leaves
\* the manager fresh; so in every state a completed close() can leave behind
\* the manager is fresh, and a second close() changes nothing.
C34_CloseIdempotent ==
  /\ []((closer = "idle" /\ pool = 0) => FreshManager)
  /\ [][/\ (closer = "idle" /\ pool = 0) => closer' = "idle"
        /\ (closer = "cl_close" /\ closer' = "idle") => FreshManager']_vars

\* ---------------------------------------------------------------- startup
\* What main() leaves alone when it moves on.
mainFrame == <<readonly_query, call, api, mgrVars, taskVars, closeVars>>

\* Mutant of IsErrorResponse: the startup check accepts every response.
IsErrorResponse_Never(r) == FALSE

\* main, lines 826-831: the response is a one-element list whose row has an
\* `error` key (r is the result of run_query: an error key k stands for
\* [{'error': k}]).
IsErrorResponse(r) == r \in ErrorKeys

\* main, lines 784-819: the connection object has been constructed.
ConnectionConstructed ==
  /\ main = "construct"
  /\ main' = "validate"
  /\ UNCHANGED mainFrame

\* main, lines 799-801, 815-821: the constructor raised; sys.exit(1).
ConnectionFailed ==
  /\ main = "construct"
  /\ main' = "exit_1"
  /\ UNCHANGED mainFrame

\* main, line 825: asyncio.run(run_query('SELECT 1', ctx, db_connection)); the
\* call runs as request 1 up to its first suspension.
ValidationQuery ==
  /\ main = "validate"
  /\ RunQueryRejected(1) \/ RunQueryExecute(1)
  /\ Statements[sql'[1]] = <<"SELECT", "1">>

\* main, lines 826-833: run_query has returned the error shape; sys.exit(1).
ValidationFailed ==
  /\ main = "validate"
  /\ pc[1] = "done"
  /\ IsErrorResponse(result[1])
  /\ main' = "exit_1"
  /\ UNCHANGED mainFrame

\* main, lines 826-849: run_query has returned anything else; mcp.run()
\* starts the transport the environment selects.
ValidationPassed ==
  /\ main = "validate"
  /\ pc[1] = "done"
  /\ ~IsErrorResponse(result[1])
  /\ main' \in Transports
  /\ UNCHANGED mainFrame

\* The transport dispatches a run_query tool call.
ServeToolCall(p) ==
  /\ Serving
  /\ RunQueryRejected(p) \/ RunQueryExecute(p)

\* main() from the construction of the connection on: the validation query,
\* then (if it passes) tool calls served on the same connection object.
StartupInit == Fresh /\ call = NoCall /\ api = ToolCalls /\ main = "construct"

StartupNext ==
  \/ ConnectionConstructed
  \/ ConnectionFailed
  \/ ValidationQuery
  \/ ValidationFailed
  \/ ValidationPassed
  \/ \E p \in Tasks :
    \/ ServeToolCall(p)
    \/ CtxErrorDone(p)
    \/ OpenDone(p)
    \/ OpenFail(p)
    \/ RoAcquired(p)
    \/ RoAcquireFail(p)
    \/ RoExecDone(p)
    \/ AcquireOk(p)
    \/ AcquireFail(p)
    \/ TxBeginOk(p)
    \/ TxBeginFail(p)
    \/ DirectiveOk(p)
    \/ DirectiveFail(p)
    \/ StmtOkRows(p)
    \/ StmtOkNoRows(p)
    \/ StmtFail(p)
    \/ FetchOk(p)
    \/ FetchFail(p)
    \/ CommitOk(p)
    \/ CommitFail(p)
    \/ RollbackDone(p)

StartupSpec == StartupInit /\ [][StartupNext]_vars

\* C31: tool calls are served only after the startup validation query has
\* returned a non-error result through run_query: while the transport runs,
\* request 1 (`SELECT 1`) has returned rows, and no other request starts
\* before; when the validation returns the one-row error shape, or the
\* connection cannot be constructed, main() exits with status 1, and after
\* that nothing runs and no transport is started.
C31_ServesAfterValidation ==
  /\ [](Serving => /\ pc[1] = "done"
                   /\ Statements[sql[1]] = <<"SELECT", "1">>
                   /\ result[1] = "rows")
  /\ [](\A p \in Tasks \ {1} : pc[p] # "idle" => Serving)
  /\ [][/\ main = "construct" => main' \in {"validate", "exit_1"}
        /\ (main = "validate" /\ pc[1] = "done" /\ result[1] \in ErrorKeys)
             => main' = "exit_1"
        /\ main # "exit_1"]_vars

C31_Witness ==
  /\ main = "mcp_run_http"
  /\ readonly_query
  /\ pc[2] = "done" /\ result[2] = write_query_prohibited_key

\* C38: a POST /mcp with a JSON body that arrives while the child MCP server
\* is not running, or that gets no response line from it, is answered with
\* the status send_mcp_request raised, which is 503.
C38_UnavailableIs503 ==
  (/\ call.op = "mcp_response"
   /\ call.arg.body = "json"
   /\ call.arg.process # "running" \/ call.arg.reply = "")
  => /\ send_mcp_request(call.arg.process, call.arg.reply).status_code = 503
     /\ call.out.status_code = 503

\* C36: parse_execute_response preserves the result shape: one row map per
\* record, in record order, and each row map has exactly one entry per column
\* of columnMetadata, holding the decoded cell of that column, also when two
\* columns share a name.
C36_ParsedShape ==
  call.op = "parsed" =>
    LET response == call.out.response
        rows == call.out.rows
    IN /\ Len(rows) = Len(response.records)
       /\ \A i \in DOMAIN rows :
            /\ Len(rows[i]) = Len(response.columnMetadata)
            /\ \A j \in DOMAIN rows[i] :
                 /\ rows[i][j].name = response.columnMetadata[j].name
                 /\ rows[i][j].value = extract_cell(response.records[i][j])

\* C35: the error sentinel is unambiguous: what run_query returns for a
\* successfully executed statement never has the shape of the error result
\* (a one-element list whose row has an `error` key).
C35_SentinelUnambiguous ==
  call.op = "parsed" => ~HasErrorShape(call.out.rows)

\* The `:name` at position k of text is not a placeholder: it is the tail of
\* a cast `::name`, or it directly follows an identifier character.
NotPlaceholder(text, k) == k > 1 /\ (text[k - 1] = ":" \/ IsWord(text[k - 1]))

\* C37: the translator rewrites only placeholders: when every `:name` of a
\* parameter's name in the text is the tail of a cast `::name` or directly
\* follows an identifier character, the text survives translation unchanged.
C37_CastsSurvive ==
  call.op = "translated" =>
    ((\A i \in DOMAIN call.out.params :
        \A k \in Matches(call.arg.sql, call.out.params[i].name) :
          NotPlaceholder(call.arg.sql, k))
       => call.out.sql = call.arg.sql)

====
